---- MODULE Spec2Model ----
(***************************************************************************)
(* A model of the alarm scheduling code of AlarmsFacade                    *)
(* (apps/client/src/app/core/alarms/+state/alarms.facade.ts).              *)
(*                                                                         *)
(* Time.  A Date is a record [day, hours, minutes, seconds] read in UTC;   *)
(* getTime is in seconds, so one game day is 86400.  Durations that the    *)
(* code holds as fractional minutes are held here in sixtieths of a        *)
(* minute, which is exact: every fraction getMinutesBefore adds is k/60.   *)
(* EPOCH_TIME_FACTOR is the rational 144/7 (20.571428...), so that         *)
(* 1440 / EPOCH_TIME_FACTOR is exactly 70.                                 *)
(***************************************************************************)
EXTENDS Integers, Sequences, FiniteSets, TLC

VARIABLES
  engine,       \* which Array.prototype.sort the runtime provides
  alarm,        \* the Alarm under evaluation: spawns (sorted in place), duration, weathers
  now,          \* the game time handed to the facade
  timeline,     \* the weather timeline snapshot the WeatherService answers from
  lead,         \* settings.alarmHoursBefore
  displays,     \* the AlarmDisplays returned by successive createDisplay calls
  pc,           \* position of the call in progress: "idle", "search", "done"
                \* (getNextSpawn), "sorted" (sortAlarmDisplays), "built" (page)
  iteration,    \* the search start of the pending findWeatherSpawnCombination round
  nextSpawn,    \* what the finished getNextSpawn call returned, and how it was found
  sortArg,      \* the display list as it was handed to sortAlarmDisplays
  displayList,  \* the display list array (sorted in place)
  alarms,       \* allAlarms$ : the alarms of the store
  groups,       \* allGroups$ : the groups of the store (sorted in place)
  page          \* the AlarmsPageDisplay last emitted

vars == <<engine, alarm, now, timeline, lead, displays, pc, iteration, nextSpawn,
          sortArg, displayList, alarms, groups, page>>

Undefined == "undefined"

Range(s) == {s[i] : i \in 1..Len(s)}

Max(S) == CHOOSE x \in S : \A y \in S : y <= x

Min(S) == CHOOSE x \in S : \A y \in S : x <= y

\* The % of JavaScript: the remainder takes the sign of the dividend.
JsRem(a, b) == IF a >= 0 THEN a % b ELSE -((-a) % b)

\* Date.getTime, in seconds.
getTime(d) == ((d.day * 24 + d.hours) * 60 + d.minutes) * 60 + d.seconds

----------------------------------------------------------------------------
(* getMinutesBefore (minutes = 0, as every caller leaves it), in           *)
(* sixtieths of a minute.                                                  *)

EPOCH_TIME_FACTOR_NUM == 144

EPOCH_TIME_FACTOR_DEN == 7

getMinutesBefore(currentTime, spawn) ==
  LET hours == IF spawn.hours = 0 THEN 24 ELSE spawn.hours
      resHours == JsRem(hours - currentTime.hours, 24)
      resMinutes0 == resHours * 60 - currentTime.minutes
      resSeconds0 == resHours * 3600 - currentTime.seconds
      resMinutes == IF resMinutes0 < 0 THEN resMinutes0 + 1440 ELSE resMinutes0
      resSeconds == IF resSeconds0 < 0 THEN resSeconds0 + 360 ELSE resSeconds0
  IN resMinutes * 60 + JsRem(resSeconds, 60)
       + (spawn.days * 1440 * 60 * EPOCH_TIME_FACTOR_DEN) \div EPOCH_TIME_FACTOR_NUM

\* EorzeanTimeService.toEarthTime: game minutes to real minutes.  The value
\* is kept exact as a count of 1/(60 * EPOCH_TIME_FACTOR_NUM) real minutes.
toEarthTime(sixtieths) == sixtieths * EPOCH_TIME_FACTOR_DEN

\* One real minute in the unit of toEarthTime's result.
EarthMinute == 60 * EPOCH_TIME_FACTOR_NUM

----------------------------------------------------------------------------
(* The comparators the facade hands to Array.prototype.sort.               *)

\* getNextSpawn's comparator of two spawn hours.
spawnCompare(time, duration, a, b) ==
  LET timeBeforeA == getMinutesBefore(time, [hours |-> a, days |-> 0])
      timeBeforeADespawns ==
        getMinutesBefore(time, [hours |-> (a + duration) % 24, days |-> 0])
      timeBeforeB == getMinutesBefore(time, [hours |-> b, days |-> 0])
      timeBeforeBDespawns ==
        getMinutesBefore(time, [hours |-> (b + duration) % 24, days |-> 0])
  IN IF timeBeforeADespawns < timeBeforeA THEN -1
     ELSE IF timeBeforeBDespawns < timeBeforeB THEN 1
     ELSE IF timeBeforeA < timeBeforeB THEN -1 ELSE 1

\* findWeatherSpawnCombination's comparator of two weather starts.
dateCompare(a, b) == getTime(a) - getTime(b)

\* A comparator that orders by remainingTime alone.
displayCompareByTime(a, b) == IF a.remainingTime < b.remainingTime THEN -1 ELSE 1

\* sortAlarmDisplays' comparator.
displayCompare(a, b) ==
  IF a.spawned /\ b.spawned
    THEN (IF a.remainingTime < b.remainingTime THEN -1 ELSE 1)
  ELSE IF a.spawned THEN -1
  ELSE IF b.spawned THEN 1
  ELSE IF a.remainingTime < b.remainingTime THEN -1 ELSE 1

\* alarmsPageDisplay$'s comparator of two groups.
groupCompare(a, b) == IF a.index < b.index THEN -1 ELSE 1

\* The comparator closure c applied to a and b.
Compare(c, a, b) ==
  CASE c.kind = "spawn" -> spawnCompare(c.time, c.duration, a, b)
    [] c.kind = "date" -> dateCompare(a, b)
    [] c.kind = "display" -> displayCompare(a, b)
    [] c.kind = "group" -> groupCompare(a, b)

----------------------------------------------------------------------------
(* Array.prototype.sort, for the short arrays the facade sorts.  A         *)
(* comparator that is not consistent makes the order implementation        *)
(* defined, so the model carries both algorithms V8 has shipped for short  *)
(* arrays: the insertion sort (up to V8 6.x) and TimSort's run detection   *)
(* followed by binary insertion (V8 7.0 on).                               *)

\* One pass of the insertion sort: a[i] is moved left past every element
\* that compares greater, up to the first that does not.
InsertionStep(a, i, c) ==
  LET element == a[i]
      stops == {j \in 1..(i - 1) : Compare(c, a[j], element) <= 0}
      j == IF stops = {} THEN 0 ELSE Max(stops)
  IN [k \in 1..Len(a) |->
        IF k <= j THEN a[k]
        ELSE IF k = j + 1 THEN element
        ELSE IF k <= i THEN a[k - 1]
        ELSE a[k]]

InsertionSort(arr, c) ==
  LET f[i \in 1..Len(arr)] ==
        IF i = 1 THEN arr ELSE InsertionStep(f[i - 1], i, c)
  IN IF Len(arr) < 2 THEN arr ELSE f[Len(arr)]

\* TimSort's CountAndMakeRun on the whole array: whether the leading run is
\* strictly descending, and its length.
RunIsDescending(a, c) == Compare(c, a[2], a[1]) < 0

RunBreaks(a, c, desc) ==
  {idx \in 3..Len(a) :
     IF desc THEN Compare(c, a[idx], a[idx - 1]) >= 0
             ELSE Compare(c, a[idx], a[idx - 1]) < 0}

RunEnd(a, breaks) == IF breaks = {} THEN Len(a) ELSE Min(breaks) - 1

ReverseRange(a, n) ==
  [k \in 1..Len(a) |-> IF k <= n THEN a[n + 1 - k] ELSE a[k]]

MakeRun(a, desc, runLength) ==
  [runLength |-> runLength,
   array |-> IF desc THEN ReverseRange(a, runLength) ELSE a]

RunOf(a, c, desc) == MakeRun(a, desc, RunEnd(a, RunBreaks(a, c, desc)))

CountAndMakeRun(a, c) == RunOf(a, c, RunIsDescending(a, c))

\* TimSort's BinaryInsertionSort: a[start] is inserted into the sorted
\* prefix a[1..start-1] at the place a binary search finds.
RECURSIVE BinarySearch(_, _, _, _, _)
BinarySearch(a, pivot, c, left, right) ==
  IF left >= right THEN left
  ELSE IF Compare(c, pivot, a[left + ((right - left) \div 2)]) < 0
    THEN BinarySearch(a, pivot, c, left, left + ((right - left) \div 2))
  ELSE BinarySearch(a, pivot, c, left + ((right - left) \div 2) + 1, right)

InsertAt(a, start, left) ==
  [k \in 1..Len(a) |->
     IF k < left THEN a[k]
     ELSE IF k = left THEN a[start]
     ELSE IF k <= start THEN a[k - 1]
     ELSE a[k]]

BinaryInsertionStep(a, start, c) ==
  InsertAt(a, start, BinarySearch(a, a[start], c, 1, start))

BinaryInsertionSort(r, c) ==
  LET f[start \in r.runLength..Len(r.array)] ==
        IF start = r.runLength THEN r.array
        ELSE BinaryInsertionStep(f[start - 1], start, c)
  IN f[Len(r.array)]

TimSort(arr, c) ==
  IF Len(arr) < 2 THEN arr ELSE BinaryInsertionSort(CountAndMakeRun(arr, c), c)

Engines == {"insertion", "timsort"}

\* arr.sort(comparator): the elements of arr in the order the engine leaves.
Sort(arr, c) ==
  SubSeq(IF engine = "insertion" THEN InsertionSort(arr, c) ELSE TimSort(arr, c),
         1, Len(arr))

----------------------------------------------------------------------------
(* The WeatherService, answered from the timeline snapshot.  A weather     *)
(* kind occurs once at (day, hours) and from the day after that every day  *)
(* at hour `later`; every occurrence lasts timeline.len hours.             *)

Date(day, hours) == [day |-> day, hours |-> hours, minutes |-> 0, seconds |-> 0]

LaterStart(t, from, d) ==
  IF getTime(Date(d, t.later)) >= getTime(from) THEN Date(d, t.later)
  ELSE Date(d + 1, t.later)

NextStart(t, from) ==
  IF getTime(Date(t.day, t.hours)) >= getTime(from) THEN Date(t.day, t.hours)
  ELSE LaterStart(t, from, IF from.day > t.day THEN from.day ELSE t.day + 1)

\* WeatherService.getNextWeatherStart: the first start at or after `from`.
getNextWeatherStart(weather, from) == NextStart(timeline.kinds[weather], from)

\* WeatherService.nextWeatherTime: when the weather that starts at `date` stops.
nextWeatherTime(date) ==
  [date EXCEPT !.day = date.day + (date.hours + timeline.len) \div 24,
               !.hours = (date.hours + timeline.len) % 24]

----------------------------------------------------------------------------
(* getNextSpawn and findWeatherSpawnCombination.                            *)

\* The deepest search start findWeatherSpawnCombination is followed to: the
\* code recurses without a bound, the model stops following it here.
MaxSearchDay == 15

\* Math.floor((to.getTime() - from.getTime()) / 86400000)
daysBetween(from, to) == (getTime(to) - getTime(from)) \div 86400

\* this.weatherService.nextWeatherTime(weatherSpawn).getUTCHours() || 24
weatherStopOf(weatherSpawn) ==
  IF nextWeatherTime(weatherSpawn).hours = 0 THEN 24
  ELSE nextWeatherTime(weatherSpawn).hours

\* weatherStart < despawn && weatherStart >= spawn
startsDuringSpawn(a, spawn, weatherSpawn) ==
  /\ weatherSpawn.hours < (spawn + a.duration) % 24
  /\ weatherSpawn.hours >= spawn

\* weatherStop > spawn
stopsAfterSpawn(spawn, weatherSpawn) == weatherStopOf(weatherSpawn) > spawn

\* The weather starts of one invocation, sorted by time.
weatherSpawnsOf(a, iter) ==
  Sort([i \in 1..Len(a.weathers) |-> getNextWeatherStart(a.weathers[i], iter)],
       [kind |-> "date"])

\* The positions, in the order the two nested loops visit them, of the
\* (spawn, weatherSpawn) pairs that take one of the two branches.
loopHits(a, sortedSpawns, weatherSpawns) ==
  {p \in 0..(Len(sortedSpawns) * Len(weatherSpawns) - 1) :
     \/ startsDuringSpawn(a, sortedSpawns[(p \div Len(weatherSpawns)) + 1],
                          weatherSpawns[(p % Len(weatherSpawns)) + 1])
     \/ stopsAfterSpawn(sortedSpawns[(p \div Len(weatherSpawns)) + 1],
                        weatherSpawns[(p % Len(weatherSpawns)) + 1])}

\* What the loop body returns for the pair it stops at.
loopReturn(a, time, spawn, weatherSpawn) ==
  IF startsDuringSpawn(a, spawn, weatherSpawn)
    THEN [found |-> TRUE,
          spawn |-> [hours |-> weatherSpawn.hours,
                     days |-> daysBetween(time, weatherSpawn),
                     despawn |-> (spawn + a.duration) % 24],
          via |-> [branch |-> "during", hour |-> spawn, weather |-> weatherSpawn]]
  ELSE [found |-> TRUE,
        spawn |-> [hours |-> spawn,
                   days |-> daysBetween(time, [weatherSpawn EXCEPT !.hours = spawn]),
                   despawn |-> weatherStopOf(weatherSpawn)],
        via |-> [branch |-> "lasting", hour |-> spawn, weather |-> weatherSpawn]]

loopResult(a, sortedSpawns, time, weatherSpawns, hits) ==
  IF hits = {}
    THEN [found |-> FALSE,
          next |-> [weatherSpawns[Len(weatherSpawns)] EXCEPT
                      !.day = weatherSpawns[Len(weatherSpawns)].day + 1]]
  ELSE loopReturn(a, time,
                  sortedSpawns[(Min(hits) \div Len(weatherSpawns)) + 1],
                  weatherSpawns[(Min(hits) % Len(weatherSpawns)) + 1])

loopOver(a, sortedSpawns, time, weatherSpawns) ==
  loopResult(a, sortedSpawns, time, weatherSpawns,
             loopHits(a, sortedSpawns, weatherSpawns))

\* One invocation of findWeatherSpawnCombination, up to its return or its
\* recursive call: what it returns, or the search start of the recursive call.
findWeatherSpawnRound(a, sortedSpawns, time, iter) ==
  loopOver(a, sortedSpawns, time, weatherSpawnsOf(a, iter))

RECURSIVE findWeatherSpawnFrom(_, _, _, _)
findWeatherSpawnCombination(a, sortedSpawns, time, iter) ==
  IF iter.day > MaxSearchDay THEN [found |-> FALSE]
  ELSE findWeatherSpawnFrom(a, sortedSpawns, time,
                            findWeatherSpawnRound(a, sortedSpawns, time, iter))

findWeatherSpawnFrom(a, sortedSpawns, time, r) ==
  IF r.found THEN r
  ELSE findWeatherSpawnCombination(a, sortedSpawns, time, r.next)

\* alarm.spawns.sort(...) of getNextSpawn: the array after the in-place sort.
sortedSpawnsOf(a, time) ==
  Sort(a.spawns, [kind |-> "spawn", time |-> time, duration |-> a.duration])

weatherSpawnOf(left, r) ==
  IF r.found THEN [found |-> TRUE, spawn |-> r.spawn, via |-> r.via, alarm |-> left]
  ELSE [found |-> FALSE, alarm |-> left]

nextSpawnOf(a, sortedSpawns, time) ==
  IF a.weathers # Undefined
    THEN weatherSpawnOf([a EXCEPT !.spawns = sortedSpawns],
                        findWeatherSpawnCombination(a, sortedSpawns, time, time))
  ELSE [found |-> TRUE,
        spawn |-> [hours |-> sortedSpawns[1], days |-> 0,
                   despawn |-> (sortedSpawns[1] + a.duration) % 24],
        via |-> [branch |-> "plain", hour |-> sortedSpawns[1]],
        alarm |-> [a EXCEPT !.spawns = sortedSpawns]]

\* getNextSpawn: what it returns (found, spawn, via) and the alarm it leaves.
getNextSpawn(a, time) == nextSpawnOf(a, sortedSpawnsOf(a, time), time)

----------------------------------------------------------------------------
(* isSpawned, isPlayed and createDisplay.  Each calls getNextSpawn itself;  *)
(* createDisplay hands each of them the result of its own call, made on    *)
(* the alarm the call before it left.                                      *)

isSpawned(spawnResult, time) ==
  LET spawn == IF spawnResult.hours = 0 THEN 24 ELSE spawnResult.hours
      despawn == IF spawnResult.despawn = 0 THEN 24 ELSE spawnResult.despawn
      despawnsNextDay == spawn > despawn
  IN IF spawnResult.days > 0 THEN FALSE
     ELSE IF ~despawnsNextDay THEN time.hours >= spawn /\ time.hours < despawn
     ELSE time.hours >= spawn \/ time.hours < despawn

isPlayed(spawnResult, time, alarmHoursBefore) ==
  getMinutesBefore(time, spawnResult) < alarmHoursBefore * 60 * 60

\* display.remainingTime before the conversion to earth time.
remainingTimeOf(spawned, spawnResult, date, duration) ==
  IF spawned
    THEN getMinutesBefore(date, [spawnResult EXCEPT
                                   !.hours = (spawnResult.hours + duration) % 24])
  ELSE getMinutesBefore(date, spawnResult)

\* display.nextSpawn = this.getNextSpawn(alarm, date); return display
displayOf(spawned, played, remainingTime, c4) ==
  [alarm |-> c4.alarm,
   display |-> [spawned |-> spawned, played |-> played,
                remainingTime |-> toEarthTime(remainingTime),
                nextSpawn |-> c4.spawn]]

\* A createDisplay that keeps the third call's result as display.nextSpawn
\* instead of calling getNextSpawn a fourth time.
withRemainingTimeReusingCall(spawned, played, c3, date) ==
  displayOf(spawned, played,
            remainingTimeOf(spawned, c3.spawn, date, c3.alarm.duration), c3)

\* display.remainingTime is set from the third getNextSpawn call.
withRemainingTime(spawned, played, c3, date) ==
  displayOf(spawned, played,
            remainingTimeOf(spawned, c3.spawn, date, c3.alarm.duration),
            getNextSpawn(c3.alarm, date))

\* display.played = this.isPlayed(alarm, date)
withPlayed(spawned, c2, date, alarmHoursBefore) ==
  withRemainingTime(spawned, isPlayed(c2.spawn, date, alarmHoursBefore),
                    getNextSpawn(c2.alarm, date), date)

\* display.spawned = this.isSpawned(alarm, date)
withSpawned(c1, date, alarmHoursBefore) ==
  withPlayed(isSpawned(c1.spawn, date), getNextSpawn(c1.alarm, date), date,
             alarmHoursBefore)

\* createDisplay: the display it returns and the alarm it leaves.
createDisplay(a, date, alarmHoursBefore) ==
  withSpawned(getNextSpawn(a, date), date, alarmHoursBefore)

\* Whether getNextSpawn returns at all (within MaxSearchDay).
Returns(a, time) ==
  IF a.weathers = Undefined THEN TRUE
  ELSE findWeatherSpawnCombination(a, a.spawns, time, time).found

----------------------------------------------------------------------------
(* The evaluation of one alarm.                                            *)

MaxSpawns == 3

MaxCalls == 2

NowMinutes == {0, 30}

NowSeconds == {0, 30}

SpawnHours == {0, 8, 10, 20}

Durations == {1, 2, 4, 23}

WeatherSpawnHours == {0, 10, 22}

WeatherDurations == {1, 2, 4}

WeatherHours == {0, 9, 11, 16, 23}

WeatherLengths == {2, 8}

LeadHours == {1}

\* The sequences of 1..n distinct elements of S.
DistinctSeqs(S, n) ==
  UNION {{s \in [1..k -> S] : \A i, j \in 1..k : i # j => s[i] # s[j]} : k \in 1..n}

Times ==
  [day : {0}, hours : 0..23, minutes : NowMinutes, seconds : NowSeconds]

WeatherTimes ==
  [day : {0}, hours : {0, 8, 9, 10, 11, 16, 22, 23}, minutes : {0}, seconds : NowSeconds]

NoTimeline ==
  [len |-> 8, kinds |-> [k \in {"Rain", "Fog"} |-> [day |-> 0, hours |-> 0, later |-> 0]]]

Timelines ==
  {[len |-> l,
    kinds |-> [k \in {"Rain", "Fog"} |->
                 IF k = "Rain" THEN rain ELSE [day |-> 0, hours |-> fog, later |-> fog]]] :
     l \in WeatherLengths,
     rain \in {r \in [day : {0, 1}, hours : WeatherHours, later : WeatherHours] :
                 r.later \in {r.hours, 16}},
     fog \in {16}}

InitRest ==
  /\ engine \in Engines
  /\ displays = <<>>
  /\ pc = "idle"
  /\ iteration = Undefined
  /\ nextSpawn = Undefined
  /\ sortArg = Undefined
  /\ displayList = <<>>
  /\ alarms = <<>>
  /\ groups = <<>>
  /\ page = Undefined

InitPlain ==
  /\ alarm \in [spawns : DistinctSeqs(SpawnHours, MaxSpawns), duration : Durations,
                weathers : {Undefined}]
  /\ now \in Times
  /\ timeline = NoTimeline
  /\ lead \in LeadHours
  /\ InitRest

InitWeather ==
  /\ alarm \in [spawns : DistinctSeqs(WeatherSpawnHours, MaxSpawns - 1),
                duration : WeatherDurations,
                weathers : {<<"Rain">>, <<"Rain", "Fog">>}]
  /\ now \in WeatherTimes
  /\ timeline \in Timelines
  /\ lead \in LeadHours
  /\ InitRest

InitAlarm == InitPlain \/ InitWeather

\* A caller invokes getNextSpawn: the spawns are sorted in place; a pattern
\* without weathers returns at once, one with weathers enters the search.
GetNextSpawn ==
  /\ pc = "idle"
  /\ displays = <<>>
  /\ \E sortedSpawns \in {sortedSpawnsOf(alarm, now)} :
       /\ alarm' = [alarm EXCEPT !.spawns = sortedSpawns]
       /\ IF alarm.weathers = Undefined
            THEN /\ pc' = "done"
                 /\ nextSpawn' = [spawn |-> nextSpawnOf(alarm, sortedSpawns, now).spawn,
                                  via |-> nextSpawnOf(alarm, sortedSpawns, now).via]
                 /\ UNCHANGED iteration
          ELSE /\ pc' = "search"
               /\ iteration' = now
               /\ UNCHANGED nextSpawn
  /\ UNCHANGED <<engine, now, timeline, lead, displays, sortArg, displayList,
                 alarms, groups, page>>

\* One invocation of findWeatherSpawnCombination: it returns, or calls
\* itself with the search start moved a day past the last weather start.
SearchRound ==
  /\ pc = "search"
  /\ iteration.day <= MaxSearchDay
  /\ \E r \in {findWeatherSpawnRound(alarm, alarm.spawns, now, iteration)} :
        IF r.found
          THEN /\ pc' = "done"
               /\ nextSpawn' = [spawn |-> r.spawn, via |-> r.via]
               /\ UNCHANGED iteration
        ELSE /\ iteration' = r.next
             /\ UNCHANGED <<pc, nextSpawn>>
  /\ UNCHANGED <<engine, alarm, now, timeline, lead, displays, sortArg, displayList,
                 alarms, groups, page>>

\* A caller invokes createDisplay(alarm, now); it returns when its
\* getNextSpawn calls do.
CreateDisplay ==
  /\ pc = "idle"
  /\ Len(displays) < MaxCalls
  /\ Returns(alarm, now)
  /\ \E r \in {createDisplay(alarm, now, lead)} :
       /\ displays' = Append(displays, r.display)
       /\ alarm' = r.alarm
  /\ UNCHANGED <<engine, now, timeline, lead, pc, iteration, nextSpawn, sortArg,
                 displayList, alarms, groups, page>>

NextAlarm == GetNextSpawn \/ SearchRound \/ CreateDisplay

SpecAlarm == InitAlarm /\ [][NextAlarm]_vars

----------------------------------------------------------------------------
(* sortAlarmDisplays on a list of displays.                                *)

MaxDisplays == 4

RemainingTimes == {0, 1, 2}

\* The sequences of 0..n elements of S.
SeqsUpTo(S, n) == UNION {[1..k -> S] : k \in 0..n}

\* sortAlarmDisplays: alarms.sort(comparator), in place.
sortAlarmDisplays(list) == Sort(list, [kind |-> "display"])

InitIdleAlarm ==
  /\ alarm = [spawns |-> <<8, 20>>, duration |-> 2, weathers |-> Undefined]
  /\ now = [day |-> 0, hours |-> 9, minutes |-> 0, seconds |-> 0]
  /\ timeline = NoTimeline
  /\ lead \in LeadHours
  /\ engine \in Engines
  /\ displays = <<>>
  /\ pc = "idle"
  /\ iteration = Undefined
  /\ nextSpawn = Undefined

InitSort ==
  /\ InitIdleAlarm
  /\ sortArg = Undefined
  /\ \E shape \in SeqsUpTo(BOOLEAN \X RemainingTimes, MaxDisplays) :
       displayList = [i \in 1..Len(shape) |->
                        [alarm |-> i, spawned |-> shape[i][1],
                         remainingTime |-> shape[i][2]]]
  /\ alarms = <<>>
  /\ groups = <<>>
  /\ page = Undefined

\* A caller hands the display list to sortAlarmDisplays.
SortAlarmDisplays ==
  /\ sortArg' = displayList
  /\ displayList' = sortAlarmDisplays(displayList)
  /\ pc' = "sorted"
  /\ UNCHANGED <<engine, alarm, now, timeline, lead, displays, iteration,
                 nextSpawn, alarms, groups, page>>

NextSort == SortAlarmDisplays

SpecSort == InitSort /\ [][NextSort]_vars

----------------------------------------------------------------------------
(* alarmsPageDisplay$: the page view built from the alarms and groups of   *)
(* the store at one emission.  Alarms are named by their place in the      *)
(* alarms array, which is the object createDisplay sorts the spawns of.    *)

MaxAlarms == 2

MaxGroups == 2

GroupIds == {Undefined, "g1", "g9"}

GroupKeys == {Undefined, "g1", "g2"}

GroupIndexes == {0, 1}

PageSpawns == {Undefined, <<20, 8>>}

\* The elements of s that are in keep, in the order of s.
RECURSIVE Filter(_, _)
Filter(s, keep) ==
  IF s = <<>> THEN <<>>
  ELSE IF Head(s) \in keep THEN <<Head(s)>> \o Filter(Tail(s), keep)
  ELSE Filter(Tail(s), keep)

Indexes(as) == [i \in 1..Len(as) |-> i]

\* alarms.filter(alarm => alarm.groupId !== undefined && alarm.groupId === group.$key)
groupAlarmsOf(group, as) ==
  Filter(Indexes(as),
         {i \in 1..Len(as) : as[i].groupId # Undefined /\ as[i].groupId = group.key})

\* A noGroup filter that leaves out the group.$key !== undefined test.
noGroupOfAnyKey(gs, as) ==
  Filter(Indexes(as),
         {i \in 1..Len(as) : ~\E k \in 1..Len(gs) : gs[k].key = as[i].groupId})

\* alarms.filter(alarm => groups.find(group => group.$key !== undefined
\*                                    && group.$key === alarm.groupId) === undefined)
noGroupOf(gs, as) ==
  Filter(Indexes(as),
         {i \in 1..Len(as) :
            ~\E k \in 1..Len(gs) : gs[k].key # Undefined /\ gs[k].key = as[i].groupId})

\* new AlarmDisplay(alarm) filled in by createDisplay; the alarm it sorted.
displayAdded(prev, i, r) ==
  [alarms |-> [prev.alarms EXCEPT ![i] = r.alarm],
   displays |-> Append(prev.displays,
                       [alarm |-> i, spawned |-> r.display.spawned,
                        played |-> r.display.played,
                        remainingTime |-> r.display.remainingTime,
                        nextSpawn |-> r.display.nextSpawn])]

displayStep(prev, i, date, alarmHoursBefore) ==
  displayAdded(prev, i, createDisplay(prev.alarms[i], date, alarmHoursBefore))

\* .map(alarm => this.createDisplay(alarm, date)) over the alarms at idxs.
mapCreateDisplay(idxs, as, date, alarmHoursBefore) ==
  LET f[j \in 0..Len(idxs)] ==
        IF j = 0 THEN [alarms |-> as, displays |-> <<>>]
        ELSE displayStep(f[j - 1], idxs[j], date, alarmHoursBefore)
  IN f[Len(idxs)]

sortedDisplays(r) ==
  [alarms |-> r.alarms, displays |-> sortAlarmDisplays(r.displays)]

\* createDisplayArray: the sorted displays and the alarms array it leaves.
createDisplayArray(idxs, as, date, alarmHoursBefore) ==
  sortedDisplays(
    mapCreateDisplay(Filter(idxs, {i \in 1..Len(as) : as[i].spawns # Undefined}),
                     as, date, alarmHoursBefore))

\* The k-th array the page view filters out of the alarms: the alarms of the
\* k-th group, and after the groups the alarms of no group.
listAlarmsOf(k, gs, as) ==
  IF k <= Len(gs) THEN groupAlarmsOf(gs[k], as) ELSE noGroupOf(gs, as)

listAdded(prev, r) ==
  [alarms |-> r.alarms, lists |-> Append(prev.lists, r.displays)]

listStep(prev, k, gs, date, alarmHoursBefore) ==
  listAdded(prev,
            createDisplayArray(listAlarmsOf(k, gs, prev.alarms), prev.alarms,
                               date, alarmHoursBefore))

\* The createDisplayArray calls of the page view in the order they are made:
\* one for each group in sorted order, then the one of display.noGroup.
listsOf(sortedGroups, as, date, alarmHoursBefore) ==
  LET f[k \in 0..(Len(sortedGroups) + 1)] ==
        IF k = 0 THEN [alarms |-> as, lists |-> <<>>]
        ELSE listStep(f[k - 1], k, sortedGroups, date, alarmHoursBefore)
  IN f[Len(sortedGroups) + 1]

\* The AlarmsPageDisplay: groupedAlarms as { group, alarms }, and noGroup.
pageOf(sortedGroups, lists) ==
  [groupedAlarms |-> [k \in 1..Len(sortedGroups) |->
                        [group |-> sortedGroups[k], alarms |-> lists[k]]],
   noGroup |-> lists[Len(sortedGroups) + 1]]

\* The store keys its groups, so no two groups share a defined key.
DistinctKeys(gs) ==
  \A j, k \in 1..Len(gs) : (j # k /\ gs[j].key # Undefined) => gs[j].key # gs[k].key

InitPage ==
  /\ InitIdleAlarm
  /\ sortArg = Undefined
  /\ displayList = <<>>
  /\ alarms \in SeqsUpTo([groupId : GroupIds, spawns : PageSpawns, duration : {4},
                          weathers : {Undefined}], MaxAlarms)
  /\ groups \in SeqsUpTo([key : GroupKeys, index : GroupIndexes], MaxGroups)
  /\ DistinctKeys(groups)
  /\ page = Undefined

\* Eorzean time, the alarms or the groups emit: the page view is rebuilt.
BuildPage ==
  \E sortedGroups \in {Sort(groups, [kind |-> "group"])} :
    \E r \in {listsOf(sortedGroups, alarms, now, lead)} :
      /\ page' = pageOf(sortedGroups, r.lists)
      /\ groups' = sortedGroups
      /\ alarms' = r.alarms
      /\ pc' = "built"
      /\ UNCHANGED <<engine, alarm, now, timeline, lead, displays, iteration,
                     nextSpawn, sortArg, displayList>>

NextPage == BuildPage

SpecPage == InitPage /\ [][NextPage]_vars

----------------------------------------------------------------------------
(* Claims about the evaluation of one alarm, checked under SpecAlarm.      *)

\* Hour h lies in [hours, despawn), read wraparound-aware: hours > despawn
\* means the window spans midnight, and despawn may be 24.
InWindow(h, hours, despawn) ==
  IF hours > despawn THEN h >= hours \/ h < despawn
  ELSE h >= hours /\ h < despawn

\* The createDisplay call of a step, if the step is one.
IsCreateDisplayStep == Len(displays') = Len(displays) + 1

\* C1: whenever getNextSpawn(alarm, now) returns a window of the current
\* game day and now's hour lies inside it (wraparound-aware), the display
\* that createDisplay(alarm, now) builds has spawned = TRUE.
C1_SpawnedInsideWindow ==
  [][(/\ IsCreateDisplayStep
      /\ getNextSpawn(alarm, now).spawn.days = 0
      /\ InWindow(now.hours, getNextSpawn(alarm, now).spawn.hours,
                  getNextSpawn(alarm, now).spawn.despawn))
       => displays'[Len(displays')].spawned]_vars

\* C2: every display createDisplay builds has remainingTime >= 0.
C2_RemainingTimeNonNegative ==
  \A i \in 1..Len(displays) : displays[i].remainingTime >= 0

\* C3: createDisplay called twice in succession on the same alarm object
\* with the same now, timeline and lead time returns equal displays.
C3_CreateDisplayRepeats ==
  \A i \in 1..Len(displays) : displays[i] = displays[1]

C3_Witness ==
  /\ Len(displays) >= 2
  /\ engine = "timsort"
  /\ Len(alarm.spawns) >= 2
  /\ \E s, u \in Range(alarm.spawns) :
       /\ s # u
       /\ InWindow(now.hours, s, (s + alarm.duration) % 24)
       /\ InWindow(now.hours, u, (u + alarm.duration) % 24)

\* The slots of the alarm that count as open at `time`: minutes-until-close
\* smaller than minutes-until-open.
OpenSlots(a, time) ==
  {s \in Range(a.spawns) :
     getMinutesBefore(time, [hours |-> (s + a.duration) % 24, days |-> 0])
       < getMinutesBefore(time, [hours |-> s, days |-> 0])}

\* The slot of S with the smallest minutes-until-open.
Soonest(S, time) ==
  CHOOSE s \in S :
    \A u \in S : getMinutesBefore(time, [hours |-> s, days |-> 0])
                   <= getMinutesBefore(time, [hours |-> u, days |-> 0])

BestSlot(a, time) ==
  IF OpenSlots(a, time) # {} THEN Soonest(OpenSlots(a, time), time)
  ELSE Soonest(Range(a.spawns), time)

\* C4: for a pattern without weathers getNextSpawn returns the open slot
\* with the smallest minutes-until-open if a slot is open, else the slot
\* with the smallest minutes-until-open, with days 0 and despawn
\* (hours + duration) mod 24, whatever the stored order of the spawn hours.
C4_NextSpawnIsBestSlot ==
  (pc = "done" /\ alarm.weathers = Undefined)
    => nextSpawn.spawn = [hours |-> BestSlot(alarm, now), days |-> 0,
                          despawn |-> (BestSlot(alarm, now) + alarm.duration) % 24]

\* C5: the weather search never runs another round once its search start
\* is more than 14 game days past now (it has returned or failed by then).
C5_SearchBounded ==
  pc = "search" => iteration.day - now.day <= 14

\* C6: when the earliest required weather starts at an hour inside the
\* window of the first candidate spawn hour (wraparound-aware), the search
\* returns at once {hours: the weather's start hour, days: whole days from
\* now to the weather start, despawn: (spawn + duration) mod 24}.
C6_WeatherStartInsideWindow ==
  (/\ pc \in {"search", "done"}
   /\ alarm.weathers # Undefined
   /\ InWindow(weatherSpawnsOf(alarm, now)[1].hours, alarm.spawns[1],
               (alarm.spawns[1] + alarm.duration) % 24))
    => /\ pc = "search" => iteration = now
       /\ pc = "done" =>
            nextSpawn.spawn =
              [hours |-> weatherSpawnsOf(alarm, now)[1].hours,
               days |-> daysBetween(now, weatherSpawnsOf(alarm, now)[1]),
               despawn |-> (alarm.spawns[1] + alarm.duration) % 24]

\* C7: the search returns the pattern's own hour s, with the weather's stop
\* hour as despawn, only for a weather occurrence that began before the
\* window opens at s and stops after it: never for one that begins later.
C7_OwnHourOnlyForActiveWeather ==
  (pc = "done" /\ alarm.weathers # Undefined /\ nextSpawn.via.branch = "lasting")
    => /\ getTime(nextSpawn.via.weather)
            < getTime([nextSpawn.via.weather EXCEPT !.hours = nextSpawn.via.hour])
       /\ getTime(nextWeatherTime(nextSpawn.via.weather))
            > getTime([nextSpawn.via.weather EXCEPT !.hours = nextSpawn.via.hour])

\* C9: played is TRUE exactly when spawned is FALSE and remainingTime is
\* below the lead time in minutes; no display is spawned and played at once.
C9_PlayedOnlyBeforeSpawn ==
  \A i \in 1..Len(displays) :
    displays[i].played
      = (~displays[i].spawned /\ displays[i].remainingTime < lead * 60 * EarthMinute)

----------------------------------------------------------------------------
(* Claims about sortAlarmDisplays, checked under SpecSort.                 *)

Count(s, x) == Cardinality({i \in 1..Len(s) : s[i] = x})

IsPermutation(s, u) ==
  /\ Len(s) = Len(u)
  /\ \A x \in Range(s) \cup Range(u) : Count(s, x) = Count(u, x)

\* C8: sortAlarmDisplays returns a permutation of its input in which no
\* non-spawned display comes before a spawned one and remainingTime is
\* non-decreasing among the spawned and among the non-spawned displays.
C8_SortedDisplays ==
  pc = "sorted" =>
    /\ IsPermutation(displayList, sortArg)
    /\ \A i, j \in 1..Len(displayList) :
         i < j =>
           /\ ~(~displayList[i].spawned /\ displayList[j].spawned)
           /\ displayList[i].spawned = displayList[j].spawned
                => displayList[i].remainingTime <= displayList[j].remainingTime

C8_Witness ==
  /\ pc = "sorted"
  /\ displayList # sortArg
  /\ Len(displayList) >= 3
  /\ \E i, j \in 1..Len(sortArg) :
       /\ i < j
       /\ sortArg[i].spawned = sortArg[j].spawned
       /\ sortArg[i].remainingTime = sortArg[j].remainingTime
  /\ \E i, j \in 1..Len(sortArg) :
       i < j /\ ~sortArg[i].spawned /\ sortArg[j].spawned

----------------------------------------------------------------------------
(* Claims about the page view, checked under SpecPage.                     *)

\* How often alarm i is shown in a display list.
Shown(list, i) == Cardinality({j \in 1..Len(list) : list[j].alarm = i})

\* The places of the page's group displays whose group has alarm a's groupId
\* as its (defined) key.
GroupsOf(a) ==
  {k \in 1..Len(page.groupedAlarms) :
     /\ page.groupedAlarms[k].group.key # Undefined
     /\ page.groupedAlarms[k].group.key = a.groupId}

\* C10: with distinct group keys, every alarm that has spawn hours is shown
\* exactly once: in the display list of the group whose key is its groupId
\* if there is one, else in the ungrouped list.
C10_EachAlarmShownOnce ==
  (pc = "built" /\ DistinctKeys(groups)) =>
    /\ Len(page.groupedAlarms) = Len(groups)
    /\ \A i \in 1..Len(alarms) :
         alarms[i].spawns # Undefined =>
           /\ \A k \in 1..Len(page.groupedAlarms) :
                Shown(page.groupedAlarms[k].alarms, i)
                  = (IF k \in GroupsOf(alarms[i]) THEN 1 ELSE 0)
           /\ Shown(page.noGroup, i) = (IF GroupsOf(alarms[i]) = {} THEN 1 ELSE 0)
           /\ Cardinality(GroupsOf(alarms[i])) <= 1

C10_Witness ==
  /\ pc = "built"
  /\ \E k \in 1..Len(groups) : groups[k].key = Undefined
  /\ \E i, j \in 1..Len(alarms) :
       /\ alarms[i].spawns # Undefined
       /\ alarms[i].groupId = Undefined
       /\ Shown(page.noGroup, i) = 1
       /\ alarms[j].spawns # Undefined
       /\ GroupsOf(alarms[j]) # {}
       /\ \E k \in GroupsOf(alarms[j]) : Shown(page.groupedAlarms[k].alarms, j) = 1

====
